---------------------------- MODULE Spec2Model ----------------------------
(***************************************************************************)
(* dependency_scanner.py: scan a repository for Python and JS/TS imports   *)
(* and merge (f:File)-[:IMPORTS]->(m:Module) facts into a graph store.     *)
(*                                                                         *)
(* Text is a sequence of tokens.  A token is one character, except that    *)
(* the three literals of JS_IMPORT_RE ("import", "from", "require(") are   *)
(* one token each.  A module name is a sequence of tokens.                 *)
(***************************************************************************)
EXTENDS Naturals, Integers, Sequences, FiniteSets, Bags, TLC

VARIABLES
    file,        \* SpecExtract: the file handed to extract_imports
    result,      \* SpecExtract: what extract_imports did with it
    repo,        \* the walked files of the current run, in rglob order
    run,         \* number of the current run of main (the store outlives runs)
    pc,          \* position of main / build_graph
    idx,         \* index in repo of the file being processed
    imps,        \* the set extract_imports returned for that file
    todo,        \* the part of sorted(imports) build_graph has still to write
    driver,      \* "none", "open" or "closed"
    store,       \* the graph store: constraints, File nodes, Module nodes, edges
    log,         \* the per-file lines printed by main in this run
    writes,      \* the store writes issued in this run, in order
    entryStore,  \* the store as it was when the current build_graph call began
    doneCalls,   \* the (file, imports) inputs of the build_graph calls that returned
    given,       \* the module names every build_graph call so far was given
    failed,      \* whether a store write of this run has failed, and for which file
    sessions,    \* SpecConc: per concurrent session, its input and position
    observed     \* SpecConc: the last snapshot a concurrent reader took

vars == << file, result, repo, run, pc, idx, imps, todo, driver, store, log,
           writes, entryStore, doneCalls, given, failed, sessions, observed >>

-----------------------------------------------------------------------------
(* Sequences of tokens *)

\* str.split(sep)[0]: the part of s before the first sep (all of s if none).
RECURSIVE SplitFirst(_, _)
SplitFirst(s, sep) ==
    IF s = << >> \/ Head(s) = sep THEN << >>
    ELSE << Head(s) >> \o SplitFirst(Tail(s), sep)

\* str.startswith(c) for a one-character c.
StartsWith(s, c) == s /= << >> /\ Head(s) = c

\* The code point of a token's first character (tokens differ in it).
Code(c) ==
    CASE c = "\n" -> 10
      [] c = " " -> 32
      [] c = "\"" -> 34
      [] c = "'" -> 39
      [] c = "." -> 46
      [] c = "/" -> 47
      [] c = "a" -> 97
      [] c = "b" -> 98
      [] c = "from" -> 102
      [] c = "import" -> 105
      [] c = "require(" -> 114

\* Python's str ordering: s < t.
RECURSIVE StrLess(_, _)
StrLess(s, t) ==
    IF t = << >> THEN FALSE
    ELSE IF s = << >> THEN TRUE
    ELSE IF Head(s) = Head(t) THEN StrLess(Tail(s), Tail(t))
    ELSE Code(Head(s)) < Code(Head(t))

\* sorted(S) for a set of strings.
RECURSIVE sorted(_)
sorted(S) ==
    IF S = {} THEN << >>
    ELSE LET least == CHOOSE x \in S : \A y \in S \ {x} : StrLess(x, y)
         IN  << least >> \o sorted(S \ {least})

-----------------------------------------------------------------------------
(* JS_IMPORT_RE and re.finditer *)

IsSpace(c) == c \in {" ", "\n"}
IsQuote(c) == c \in {"'", "\""}

\* \s* taken greedily from position i: the first position that is no space.
RECURSIVE SkipSpaces(_, _)
SkipSpaces(text, i) ==
    IF i <= Len(text) /\ IsSpace(text[i]) THEN SkipSpaces(text, i + 1) ELSE i

\* The first position >= i that holds a quote (Len + 1 if none).
RECURSIVE NextQuote(_, _)
NextQuote(text, i) ==
    IF i > Len(text) \/ IsQuote(text[i]) THEN i ELSE NextQuote(text, i + 1)

NoMatch == [ok |-> FALSE, mod |-> << >>, end |-> 0]

\* \s*['"](?P<mod>[^'"]+)['"] at position i.  end is the position after the
\* match.
TailAt(text, i) ==
    LET q == SkipSpaces(text, i)
        c == NextQuote(text, q + 1)
    IN  IF q <= Len(text) /\ IsQuote(text[q]) /\ c <= Len(text) /\ c > q + 1
        THEN [ok |-> TRUE, mod |-> SubSeq(text, q + 1, c - 1), end |-> c + 1]
        ELSE NoMatch

\* The positions e at which the greedy .+ of import\s.+\sfrom\s may end when
\* it starts at position s: no newline in s..e, and \sfrom\s and the tail
\* follow.
DotEnds(text, s) ==
    { e \in s .. Len(text) :
        /\ \A k \in s .. e : text[k] /= "\n"
        /\ e + 3 <= Len(text)
        /\ IsSpace(text[e + 1])
        /\ text[e + 2] = "from"
        /\ IsSpace(text[e + 3])
        /\ TailAt(text, e + 4).ok }

\* import\s.+\sfrom\s followed by the tail, at position i; .+ is greedy, so
\* the longest run that lets the rest match wins.
ImportFromAt(text, i) ==
    IF /\ i + 1 <= Len(text)
       /\ text[i] = "import"
       /\ IsSpace(text[i + 1])
       /\ DotEnds(text, i + 2) /= {}
    THEN LET e == CHOOSE x \in DotEnds(text, i + 2) :
                      \A y \in DotEnds(text, i + 2) : y <= x
         IN  TailAt(text, e + 4)
    ELSE NoMatch

\* require\( followed by the tail, at position i.
RequireAt(text, i) ==
    IF i <= Len(text) /\ text[i] = "require(" THEN TailAt(text, i + 1)
    ELSE NoMatch

\* JS_IMPORT_RE.match at position i: the first alternative is tried first.
JS_IMPORT_RE(text, i) ==
    IF ImportFromAt(text, i).ok THEN ImportFromAt(text, i)
    ELSE RequireAt(text, i)

\* [m.group("mod") for m in JS_IMPORT_RE.finditer(text)] from position i on:
\* leftmost matches, none overlapping.
RECURSIVE finditer(_, _)
finditer(text, i) ==
    IF i > Len(text) THEN << >>
    ELSE LET m == JS_IMPORT_RE(text, i)
         IN  IF m.ok THEN << m.mod >> \o finditer(text, m.end)
             ELSE finditer(text, i + 1)

-----------------------------------------------------------------------------
(* Files and the extractors *)

\* A walked entry: its path (pathlib: name and suffix), whether
\* read_text(encoding="utf-8") succeeds, whether ast.parse accepts the text,
\* the nodes ast.walk yields for it (a .py file) and its text (a .js/.ts file).
\* An ast.ImportFrom with module None has module << >>.
Import(names) == [type |-> "Import", names |-> names, module |-> << >>, level |-> 0]
ImportFrom(module, level) ==
    [type |-> "ImportFrom", names |-> << >>, module |-> module, level |-> level]
OtherNode == [type |-> "Other", names |-> << >>, module |-> << >>, level |-> 0]

PyFile(path, read, malformed, tree) ==
    [path |-> path, read |-> read, malformed |-> malformed, tree |-> tree,
     text |-> << >>]
TextFile(path, read, text) ==
    [path |-> path, read |-> read, malformed |-> FALSE, tree |-> << >>,
     text |-> text]

Returned(mods) == [raised |-> FALSE, mods |-> mods]
Raised == [raised |-> TRUE, mods |-> {}]

\* alias.name.split(".")[0] for every alias of one ast.Import node.
ImportNames(node) == { SplitFirst(node.names[k], ".") : k \in DOMAIN node.names }

\* What one node of ast.walk(tree) adds to mods.
NodeModules(node) ==
    IF node.type = "Import" THEN ImportNames(node)
    ELSE IF node.type = "ImportFrom" /\ node.module /= << >>
         THEN { SplitFirst(node.module, ".") }
         ELSE {}

extract_python_imports(f) ==
    IF f.read /= "ok" \/ f.malformed THEN Returned({})
    ELSE Returned(UNION { NodeModules(f.tree[k]) : k \in DOMAIN f.tree })

\* The first segment of every match, relative or not.
JsNamesUnfiltered(text) ==
    LET mods == finditer(text, 1)
    IN  { SplitFirst(mods[k], "/") : k \in DOMAIN mods }

\* m.group("mod").split("/")[0] of every match, kept unless it starts with ".".
JsNames(text) ==
    LET mods == finditer(text, 1)
        names == { SplitFirst(mods[k], "/") : k \in DOMAIN mods }
    IN  { name \in names : ~StartsWith(name, ".") }

extract_js_imports(f) ==
    IF f.read /= "ok" THEN Raised ELSE Returned(JsNames(f.text))

extract_imports(f) ==
    IF f.path.suffix \in {".py"} THEN extract_python_imports(f)
    ELSE IF f.path.suffix \in {".js", ".ts"} THEN extract_js_imports(f)
    ELSE Returned({})

-----------------------------------------------------------------------------
(* SpecExtract: extract_imports on one file *)

MaxNodes == 2
MaxFrags == 2

RECURSIVE SeqsUpTo(_, _)
SeqsUpTo(S, n) ==
    IF n = 0 THEN { << >> }
    ELSE LET shorter == SeqsUpTo(S, n - 1)
         IN  shorter \cup { Append(s, x) : s \in shorter, x \in S }

RECURSIVE Concat(_)
Concat(ss) == IF ss = << >> THEN << >> ELSE Head(ss) \o Concat(Tail(ss))

DottedNames == { <<"a">>, <<"a", ".", "b">>, <<"b", ".", "a", ".", "a">> }

NodeChoices ==
    { Import(<<n>>) : n \in DottedNames }
    \cup { Import(<< <<"b">>, <<"a", ".", "b">> >>) }
    \cup { ImportFrom(n, l) : n \in DottedNames, l \in {0, 1} }
    \cup { ImportFrom(<< >>, 1), OtherNode }

Heads ==
    { << >>, <<"require(">>, <<"require(", " ">>, <<"import", " ">>,
      <<"import", " ", "b", " ", "from", " ">> }
ModuleStrings ==
    { <<"a">>, <<"a", "/", "b">>, <<".", "/", "a">>, <<".", "a">>,
      <<".", ".", "/", "b">>, <<"/", "a">>, <<"b", ".", "a">> }
Quoted == { <<"'">> \o m \o <<"'">> : m \in ModuleStrings }
          \cup { <<"\"", "b", "/", ".", "\"">>, <<"'", "'">> }
Fragments == { h \o q : h \in Heads, q \in Quoted }
             \cup { <<"\n">>, <<" ">>, <<"a">>, <<" ", "from", " ">> }

PyPath == [name |-> "a", suffix |-> ".py"]
JsPath == [name |-> "b", suffix |-> ".js"]
TsPath == [name |-> "c", suffix |-> ".ts"]
MdPath == [name |-> "r", suffix |-> ".md"]

ReadOutcomes == {"ok", "undecodable", "unreadable"}

ExtractInputs ==
    { PyFile(PyPath, "ok", FALSE, t) : t \in SeqsUpTo(NodeChoices, MaxNodes) }
    \cup { PyFile(PyPath, r, m, << >>) : r \in ReadOutcomes, m \in BOOLEAN }
    \cup { TextFile(p, "ok", Concat(fs)) :
              p \in {JsPath, TsPath}, fs \in SeqsUpTo(Fragments, MaxFrags) }
    \cup { TextFile(p, r, <<"require(", "'", "a", "'">>) :
              p \in {JsPath, TsPath, MdPath}, r \in ReadOutcomes }

Idle == [called |-> FALSE, raised |-> FALSE, mods |-> {}]

\* The variables of the other specifications, at rest.
MainIdle ==
    /\ repo = << >> /\ run = 0 /\ pc = "idle" /\ idx = 0 /\ imps = {}
    /\ todo = << >> /\ driver = "none" /\ log = << >> /\ writes = << >>
    /\ doneCalls = {} /\ given = {} /\ failed = [is |-> FALSE, at |-> 0]
ConcIdle == sessions = << >> /\ observed = << >>

InitExtract ==
    /\ file \in ExtractInputs
    /\ result = Idle
    /\ MainIdle /\ ConcIdle
    /\ store = << >> /\ entryStore = << >>

CallExtractPython ==
    /\ ~result.called
    /\ file.path.suffix \in {".py"}
    /\ result' = [called |-> TRUE] @@ extract_imports(file)
    /\ UNCHANGED << file, repo, run, pc, idx, imps, todo, driver, store, log,
                    writes, entryStore, doneCalls, given, failed, sessions,
                    observed >>

CallExtractJs ==
    /\ ~result.called
    /\ file.path.suffix \in {".js", ".ts"}
    /\ result' = [called |-> TRUE] @@ extract_imports(file)
    /\ UNCHANGED << file, repo, run, pc, idx, imps, todo, driver, store, log,
                    writes, entryStore, doneCalls, given, failed, sessions,
                    observed >>

CallExtractOther ==
    /\ ~result.called
    /\ file.path.suffix \notin {".py", ".js", ".ts"}
    /\ result' = [called |-> TRUE] @@ extract_imports(file)
    /\ UNCHANGED << file, repo, run, pc, idx, imps, todo, driver, store, log,
                    writes, entryStore, doneCalls, given, failed, sessions,
                    observed >>

NextExtract == CallExtractPython \/ CallExtractJs \/ CallExtractOther

SpecExtract == InitExtract /\ [][NextExtract]_vars

-----------------------------------------------------------------------------
(* The graph store and the queries of build_graph *)

\* Nodes and edges are bags, so that a duplicate would show: File nodes by
\* path, Module nodes by name, IMPORTS edges by << path, name >>.
EmptyStore ==
    [constraints |-> {}, files |-> EmptyBag, modules |-> EmptyBag,
     edges |-> EmptyBag]

\* MERGE of a node or relationship pattern: match it, or create it if absent.
CreateIn(bag, key) == bag (+) SetToBag({key})
MergeIn(bag, key) == IF BagIn(key, bag) THEN bag ELSE bag (+) SetToBag({key})

\* CREATE in place of MERGE.
CreateNode(bag, key) == CreateIn(bag, key)
CreateEdge(bag, key) == CreateIn(bag, key)

MergeNode(bag, key) == MergeIn(bag, key)
MergeEdge(bag, key) == MergeIn(bag, key)

\* CREATE CONSTRAINT IF NOT EXISTS FOR (n:label) REQUIRE n.key IS UNIQUE
ConstraintQuery(s, label) == [s EXCEPT !.constraints = @ \cup {label}]

\* The File node merged after dropping what it imported before, with the
\* Module nodes nothing imports any more.
RefreshFileQuery(s, path) ==
    LET kept == { e \in BagToSet(s.edges) : e[1] /= path }
        used == { e[2] : e \in kept }
    IN  [s EXCEPT !.files = MergeNode(@, path),
                  !.edges = SetToBag(kept),
                  !.modules = SetToBag(BagToSet(@) \cap used)]

\* MERGE (f:File {path: $path})
MergeFileQuery(s, path) == [s EXCEPT !.files = MergeNode(@, path)]

\* The two nodes merged, the relationship created: CREATE (f)-[:IMPORTS]->(m).
CreateImportQuery(s, mod, path) ==
    [s EXCEPT !.modules = MergeNode(@, mod),
              !.files = MergeNode(@, path),
              !.edges = CreateIn(@, << path, mod >>)]

\* MERGE (m:Module {name: $mod}) MERGE (f:File {path: $path})
\* MERGE (f)-[:IMPORTS]->(m)
MergeImportQuery(s, mod, path) ==
    [s EXCEPT !.modules = MergeNode(@, mod),
              !.files = MergeNode(@, path),
              !.edges = MergeEdge(@, << path, mod >>)]

\* A uniqueness constraint rejects the query that would leave two nodes with
\* one key.
Rejected(s) ==
    \/ "File" \in s.constraints /\ \E k \in BagToSet(s.files) : CopiesIn(k, s.files) > 1
    \/ "Module" \in s.constraints
         /\ \E k \in BagToSet(s.modules) : CopiesIn(k, s.modules) > 1

\* sess.run(query): an auto-commit transaction; it commits whole or raises.
Commit(s, after) ==
    IF Rejected(after) THEN [ok |-> FALSE, store |-> s]
    ELSE [ok |-> TRUE, store |-> after]

-----------------------------------------------------------------------------
(* Spec: runs of main against one store that outlives them *)

MaxRuns == 2
MaxFiles == 2

\* The versions of the walked entries a checkout may hold.
Catalog ==
    { PyFile(PyPath, "ok", FALSE,
             << Import(<< <<"a", ".", "b">> >>), ImportFrom(<<"b", ".", "a">>, 0) >>),
      PyFile(PyPath, "ok", FALSE, << Import(<< <<"b">> >>), ImportFrom(<< >>, 1) >>),
      PyFile(PyPath, "ok", TRUE, << >>),
      TextFile(JsPath, "ok",
               <<"require(", "'", "b", "/", "a", "'", "\n",
                 "import", " ", "'", ".", "/", "a", "'">>),
      TextFile(JsPath, "undecodable", << >>),
      TextFile(MdPath, "ok", <<"require(", "'", "a", "'">>) }

\* repo_dir.rglob("*"): the entries in an order the file system decides.
Repos ==
    { r \in SeqsUpTo(Catalog, MaxFiles) :
        /\ r /= << >>
        /\ \A i, j \in DOMAIN r : i /= j => r[i].path /= r[j].path }

\* The orders in which iterating a set may yield its elements.
Orderings(S) ==
    { o \in [1 .. Cardinality(S) -> S] : \A i, j \in DOMAIN o : i /= j => o[i] /= o[j] }

NotFailed == [is |-> FALSE, at |-> 0]

Init ==
    /\ file = << >> /\ result = Idle /\ ConcIdle
    /\ repo \in Repos
    /\ run = 1
    /\ pc = "connect"
    /\ idx = 0
    /\ imps = {}
    /\ todo = << >>
    /\ driver = "none"
    /\ store = EmptyStore
    /\ log = << >>
    /\ writes = << >>
    /\ entryStore = EmptyStore
    /\ doneCalls = {}
    /\ given = {}
    /\ failed = NotFailed

\* driver = GraphDatabase.driver(...)
Connect ==
    /\ pc = "connect"
    /\ driver' = "open"
    /\ pc' = "walk"
    /\ UNCHANGED << file, result, repo, run, idx, imps, todo, store, log, writes,
                    entryStore, doneCalls, given, failed, sessions, observed >>

\* for path in rglob("*"): an entry whose suffix is not scanned.
WalkSkip ==
    /\ pc = "walk"
    /\ idx < Len(repo)
    /\ repo[idx + 1].path.suffix \notin {".py", ".js", ".ts"}
    /\ idx' = idx + 1
    /\ UNCHANGED << file, result, repo, run, pc, imps, todo, driver, store, log,
                    writes, entryStore, doneCalls, given, failed, sessions,
                    observed >>

\* for path in rglob("*"): an entry to scan.
WalkTake ==
    /\ pc = "walk"
    /\ idx < Len(repo)
    /\ repo[idx + 1].path.suffix \in {".py", ".js", ".ts"}
    /\ idx' = idx + 1
    /\ pc' = "extract"
    /\ UNCHANGED << file, result, repo, run, imps, todo, driver, store, log,
                    writes, entryStore, doneCalls, given, failed, sessions,
                    observed >>

\* imps = extract_imports(path)
ExtractReturns ==
    /\ pc = "extract"
    /\ ~extract_imports(repo[idx]).raised
    /\ imps' = extract_imports(repo[idx]).mods
    /\ pc' = "print"
    /\ UNCHANGED << file, result, repo, run, idx, todo, driver, store, log,
                    writes, entryStore, doneCalls, given, failed, sessions,
                    observed >>

\* extract_imports raises: nothing in main catches it, the process ends.
ExtractRaises ==
    /\ pc = "extract"
    /\ extract_imports(repo[idx]).raised
    /\ pc' = "exit_error"
    /\ UNCHANGED << file, result, repo, run, idx, imps, todo, driver, store, log,
                    writes, entryStore, doneCalls, given, failed, sessions,
                    observed >>

\* print(f"{rel}: imports {imps}"): the set in its iteration order.
PrintImports ==
    /\ pc = "print"
    /\ \E o \in Orderings(imps) :
          log' = Append(log, [file |-> repo[idx].path, mods |-> o])
    /\ pc' = "bg_session"
    /\ UNCHANGED << file, result, repo, run, idx, imps, todo, driver, store,
                    writes, entryStore, doneCalls, given, failed, sessions,
                    observed >>

\* build_graph(driver, rel, imps): with driver.session() as sess
OpenSession ==
    /\ pc = "bg_session"
    /\ entryStore' = store
    /\ given' = given \cup imps
    /\ pc' = "bg_constraint_file"
    /\ UNCHANGED << file, result, repo, run, idx, imps, todo, driver, store, log,
                    writes, doneCalls, failed, sessions, observed >>

\* What a query that did not fail leaves: committed, or rejected and raised.
Ran(c, next, w) ==
    /\ store' = c.store
    /\ writes' = Append(writes, w)
    /\ pc' = IF c.ok THEN next ELSE "exit_error"
    /\ failed' = IF c.ok THEN failed ELSE [is |-> TRUE, at |-> idx]

ConstraintFile ==
    /\ pc = "bg_constraint_file"
    /\ Ran(Commit(store, ConstraintQuery(store, "File")), "bg_constraint_module",
           [q |-> "constraint", path |-> repo[idx].path, arg |-> <<"File">>])
    /\ UNCHANGED << file, result, repo, run, idx, imps, todo, driver, log,
                    entryStore, doneCalls, given, sessions, observed >>

ConstraintModule ==
    /\ pc = "bg_constraint_module"
    /\ Ran(Commit(store, ConstraintQuery(store, "Module")), "bg_merge_file",
           [q |-> "constraint", path |-> repo[idx].path, arg |-> <<"Module">>])
    /\ UNCHANGED << file, result, repo, run, idx, imps, todo, driver, log,
                    entryStore, doneCalls, given, sessions, observed >>

\* MERGE the File node, then enter for mod in sorted(imports).
MergeFile ==
    /\ pc = "bg_merge_file"
    /\ Ran(Commit(store, MergeFileQuery(store, repo[idx].path)), "bg_loop",
           [q |-> "file", path |-> repo[idx].path, arg |-> << >>])
    /\ todo' = sorted(imps)
    /\ UNCHANGED << file, result, repo, run, idx, imps, driver, log, entryStore,
                    doneCalls, given, sessions, observed >>

\* One iteration of the loop: the three merges in one sess.run.
MergeImport ==
    /\ pc = "bg_loop"
    /\ todo /= << >>
    /\ Ran(Commit(store, MergeImportQuery(store, Head(todo), repo[idx].path)),
           "bg_loop",
           [q |-> "import", path |-> repo[idx].path, arg |-> Head(todo)])
    /\ todo' = Tail(todo)
    /\ UNCHANGED << file, result, repo, run, idx, imps, driver, log, entryStore,
                    doneCalls, given, sessions, observed >>

\* The loop is over: the session closes and build_graph returns to the walk.
Return ==
    /\ pc = "bg_loop"
    /\ todo = << >>
    /\ doneCalls' = doneCalls \cup { << repo[idx].path, imps >> }
    /\ pc' = "walk"
    /\ UNCHANGED << file, result, repo, run, idx, imps, todo, driver, store, log,
                    writes, entryStore, given, failed, sessions, observed >>

AtWrite ==
    \/ pc \in {"bg_constraint_file", "bg_constraint_module", "bg_merge_file"}
    \/ pc = "bg_loop" /\ todo /= << >>

\* A sess.run raises and the walk goes on to the next entry.
WriteFailsSwallowed ==
    /\ AtWrite
    /\ failed' = [is |-> TRUE, at |-> idx]
    /\ pc' = "walk"
    /\ UNCHANGED << file, result, repo, run, idx, imps, todo, driver, store, log,
                    writes, entryStore, doneCalls, given, sessions, observed >>

\* A sess.run raises (the store is unreachable, the write fails): nothing is
\* committed, and neither build_graph nor main catches it.
WriteFails ==
    /\ AtWrite
    /\ failed' = [is |-> TRUE, at |-> idx]
    /\ pc' = "exit_error"
    /\ UNCHANGED << file, result, repo, run, idx, imps, todo, driver, store, log,
                    writes, entryStore, doneCalls, given, sessions, observed >>

\* The walk is over: driver.close(); print("Done.")
Close ==
    /\ pc = "walk"
    /\ idx = Len(repo)
    /\ driver' = "closed"
    /\ pc' = "exit_ok"
    /\ UNCHANGED << file, result, repo, run, idx, imps, todo, store, log, writes,
                    entryStore, doneCalls, given, failed, sessions, observed >>

\* The scanner is run again, on a checkout that may differ, against the same
\* store.
NextRun ==
    /\ pc \in {"exit_ok", "exit_error"}
    /\ run < MaxRuns
    /\ run' = run + 1
    /\ repo' \in Repos
    /\ pc' = "connect"
    /\ idx' = 0
    /\ imps' = {}
    /\ todo' = << >>
    /\ driver' = "none"
    /\ log' = << >>
    /\ writes' = << >>
    /\ entryStore' = store
    /\ failed' = NotFailed
    /\ UNCHANGED << file, result, store, doneCalls, given, sessions, observed >>

Next ==
    \/ Connect \/ WalkSkip \/ WalkTake \/ ExtractReturns \/ ExtractRaises
    \/ PrintImports \/ OpenSession \/ ConstraintFile \/ ConstraintModule
    \/ MergeFile \/ MergeImport \/ Return \/ WriteFails \/ Close \/ NextRun

Spec == Init /\ [][Next]_vars

-----------------------------------------------------------------------------
(* SpecConc: build_graph calls in separate sessions, and a reader *)

NumSessions == 2

Workers == 1 .. NumSessions
ModuleNames == { <<"a">>, <<"b">> }

SessionInputs ==
    [path : {PyPath, JsPath}, imps : SUBSET ModuleNames,
     pc : {"bg_constraint_file"}, todo : { << >> }]

InitConc ==
    /\ file = << >> /\ result = Idle /\ MainIdle
    /\ sessions \in [Workers -> SessionInputs]
    /\ store = EmptyStore
    /\ entryStore = EmptyStore
    /\ observed = EmptyStore

\* What a query leaves in session w: committed, or rejected and raised.
SessRan(w, c, next, rest) ==
    /\ store' = c.store
    /\ sessions' = [sessions EXCEPT ![w].pc = IF c.ok THEN next ELSE "error",
                                    ![w].todo = rest]

SessConstraintFile(w) ==
    /\ sessions[w].pc = "bg_constraint_file"
    /\ SessRan(w, Commit(store, ConstraintQuery(store, "File")),
               "bg_constraint_module", << >>)
    /\ UNCHANGED << file, result, repo, run, pc, idx, imps, todo, driver, log,
                    writes, entryStore, doneCalls, given, failed, observed >>

SessConstraintModule(w) ==
    /\ sessions[w].pc = "bg_constraint_module"
    /\ SessRan(w, Commit(store, ConstraintQuery(store, "Module")),
               "bg_merge_file", << >>)
    /\ UNCHANGED << file, result, repo, run, pc, idx, imps, todo, driver, log,
                    writes, entryStore, doneCalls, given, failed, observed >>

SessMergeFile(w) ==
    /\ sessions[w].pc = "bg_merge_file"
    /\ SessRan(w, Commit(store, MergeFileQuery(store, sessions[w].path)),
               "bg_loop", sorted(sessions[w].imps))
    /\ UNCHANGED << file, result, repo, run, pc, idx, imps, todo, driver, log,
                    writes, entryStore, doneCalls, given, failed, observed >>

\* The three merges sent as three queries, one committed per step.
SessMergeImportSplit(w) ==
    /\ sessions[w].pc = "bg_loop"
    /\ sessions[w].todo /= << >>
    /\ LET mod == Head(sessions[w].todo)
           path == sessions[w].path
       IN  IF ~BagIn(mod, store.modules)
           THEN SessRan(w, Commit(store, [store EXCEPT !.modules = MergeNode(@, mod)]),
                        "bg_loop", sessions[w].todo)
           ELSE SessRan(w, Commit(store, MergeImportQuery(store, mod, path)),
                        "bg_loop", Tail(sessions[w].todo))
    /\ UNCHANGED << file, result, repo, run, pc, idx, imps, todo, driver, log,
                    writes, entryStore, doneCalls, given, failed, observed >>

\* One iteration of the loop: the three merges in one sess.run, one
\* transaction.
SessMergeImport(w) ==
    /\ sessions[w].pc = "bg_loop"
    /\ sessions[w].todo /= << >>
    /\ SessRan(w, Commit(store, MergeImportQuery(store, Head(sessions[w].todo),
                                                 sessions[w].path)),
               "bg_loop", Tail(sessions[w].todo))
    /\ UNCHANGED << file, result, repo, run, pc, idx, imps, todo, driver, log,
                    writes, entryStore, doneCalls, given, failed, observed >>

SessReturn(w) ==
    /\ sessions[w].pc = "bg_loop"
    /\ sessions[w].todo = << >>
    /\ sessions' = [sessions EXCEPT ![w].pc = "done"]
    /\ UNCHANGED << file, result, repo, run, pc, idx, imps, todo, driver, store,
                    log, writes, entryStore, doneCalls, given, failed, observed >>

\* A reader in a session of its own sees what has been committed.
Read ==
    /\ observed' = store
    /\ UNCHANGED << file, result, repo, run, pc, idx, imps, todo, driver, store,
                    log, writes, entryStore, doneCalls, given, failed, sessions >>

NextConc ==
    \/ \E w \in Workers :
          \/ SessConstraintFile(w) \/ SessConstraintModule(w) \/ SessMergeFile(w)
          \/ SessMergeImport(w) \/ SessReturn(w)
    \/ Read

SpecConc == InitConc /\ [][NextConc]_vars

-----------------------------------------------------------------------------
(* Properties *)

Path(k) == repo[k].path
CallInput == << repo[idx].path, imps >>
CallOver == pc = "bg_loop" /\ todo = << >>

\* C1: a build_graph call whose (file, module set) input an earlier call
\* already returned for leaves the store exactly as it found it: the same
\* File nodes, Module nodes and IMPORTS edges, each as many times as before.
BuildGraphIdempotent ==
    (CallOver /\ CallInput \in doneCalls) => store = entryStore

BuildGraphIdempotentWitness ==
    /\ CallOver
    /\ CallInput \in doneCalls
    /\ Cardinality(imps) = 2
    /\ BagCardinality(store.edges) > 2

AtMostOnce(bag) == \A k \in BagToSet(bag) : CopiesIn(k, bag) = 1

\* C2: the store never holds two File nodes with one path, two Module nodes
\* with one name, or two IMPORTS edges between one file and one module.
Uniqueness ==
    /\ AtMostOnce(store.files)
    /\ AtMostOnce(store.modules)
    /\ AtMostOnce(store.edges)

\* One module upserted from two files, and one file upserted by two calls.
UniquenessWitness ==
    /\ \E e1, e2 \in BagToSet(store.edges) : e1[1] /= e2[1] /\ e1[2] = e2[2]
    /\ \E c1, c2 \in doneCalls : c1[1] = c2[1] /\ c1[2] /= c2[2]
    /\ run = MaxRuns

\* The module set the claim describes, from the file's statements and matches.
ImportedNames(f) ==
    UNION { { f.tree[k].names[j] : j \in DOMAIN f.tree[k].names } :
              k \in { i \in DOMAIN f.tree : f.tree[i].type = "Import" } }
FromModules(f) ==
    { f.tree[k].module :
        k \in { i \in DOMAIN f.tree :
                  f.tree[i].type = "ImportFrom" /\ f.tree[i].module /= << >> } }
MatchedStrings(f) ==
    LET mods == finditer(f.text, 1) IN { mods[k] : k \in DOMAIN mods }

ReferenceModules(f) ==
    IF f.path.suffix = ".py"
    THEN IF f.read /= "ok" \/ f.malformed THEN {}
         ELSE { SplitFirst(n, ".") : n \in ImportedNames(f) \cup FromModules(f) }
    ELSE IF f.path.suffix \in {".js", ".ts"}
    THEN { SplitFirst(m, "/") : m \in { x \in MatchedStrings(f) : Head(x) /= "." } }
    ELSE {}

HasText(f) == f.read = "ok" \/ f.path.suffix \notin {".js", ".ts"}

ExtractNeverRaises == result.called => ~result.raised

\* C5: a failed store write ends the run at that file: the step that fails
\* and every later step of the run leave the store as it was, and main is out
\* of the walk loop with the failure, at the file that failed.
WriteFailureFatal ==
    [][failed'.is => (pc' = "exit_error" /\ idx' = failed'.at /\ store' = store)]_vars

\* The write for the second file failed after the first file was committed.
WriteFailureFatalWitness ==
    /\ failed.is
    /\ failed.at = 2
    /\ BagIn(Path(1), store.files)
    /\ \E e \in BagToSet(store.edges) : e[1] = Path(1)
    /\ BagIn(Path(2), store.files)

\* C6: what a concurrent reader sees never holds an IMPORTS edge without its
\* File and Module nodes, nor a Module node that no IMPORTS edge points to.
WholeWritesObserved ==
    /\ \A e \in BagToSet(observed.edges) :
          BagIn(e[1], observed.files) /\ BagIn(e[2], observed.modules)
    /\ \A m \in BagToSet(observed.modules) :
          \E e \in BagToSet(observed.edges) : e[2] = m

\* The reader looked while a session was between two import writes.
WholeWritesObservedWitness ==
    /\ observed = store
    /\ \E w \in Workers :
          /\ sessions[w].pc = "bg_loop"
          /\ Len(sessions[w].todo) = 1
          /\ Cardinality(sessions[w].imps) = 2
          /\ BagIn(<< sessions[w].path, <<"a">> >>, observed.edges)

ExpectedGraph ==
    [constraints |-> {"File", "Module"},
     files |-> SetToBag({ sessions[w].path : w \in Workers }),
     modules |-> SetToBag(UNION { sessions[w].imps : w \in Workers }),
     edges |-> SetToBag(UNION { { << sessions[w].path, m >> : m \in sessions[w].imps } :
                                  w \in Workers })]

AllDone == \A w \in Workers : sessions[w].pc = "done"

\* C7: however the writes of the concurrent build_graph calls interleave, no
\* query is rejected, and once all calls returned the graph is the one their
\* inputs determine, with one node per path and per name.
OrderIndependent ==
    /\ \A w \in Workers : sessions[w].pc /= "error"
    /\ AllDone => store = ExpectedGraph

\* Two sessions upserted one module for different files.
OrderIndependentWitness ==
    /\ AllDone
    /\ \E v, w \in Workers :
          /\ sessions[v].path /= sessions[w].path
          /\ sessions[v].imps \cap sessions[w].imps /= {}
          /\ sessions[v].imps /= sessions[w].imps

\* C8 as stated: a Module node exists if and only if some build_graph call
\* was given its name.
ModuleIffGiven ==
    \A n \in given \cup BagToSet(store.modules) :
        BagIn(n, store.modules) <=> n \in given

ModulesSound(s, names) == \A n \in BagToSet(s.modules) : n \in names
ModulesComplete(s, calls) == \A c \in calls : \A n \in c[2] : BagIn(n, s.modules)

\* C8 as amended: a Module node exists only if some build_graph call was
\* given its name, it exists whenever such a call has returned, and no step
\* removes a Module node.
ModuleExistence ==
    [][/\ ModulesSound(store', given')
       /\ ModulesComplete(store', doneCalls')
       /\ \A n \in BagToSet(store.modules) : BagIn(n, store'.modules)]_vars

\* A later run, over files none of which imports "a" any more, has ended.
ModuleExistenceWitness ==
    /\ run = 2
    /\ pc = "exit_ok"
    /\ BagIn(<<"a">>, store.modules)
    /\ \A k \in DOMAIN repo : <<"a">> \notin extract_imports(repo[k]).mods
    /\ \E k \in DOMAIN repo : repo[k].path = PyPath /\ ~repo[k].malformed

\* C9: however a run ends, the driver it opened has been closed.
DriverReleased == pc \in {"exit_ok", "exit_error"} => driver = "closed"

Ascending(q) == \A i, j \in DOMAIN q : i < j => StrLess(q[i], q[j])

\* C10: the module names are in lexicographic order in the import writes of
\* each file and in each log line.
DeterministicOrder ==
    /\ \A i, j \in DOMAIN writes :
          (/\ i < j
           /\ writes[i].q = "import" /\ writes[j].q = "import"
           /\ writes[i].path = writes[j].path)
          => StrLess(writes[i].arg, writes[j].arg)
    /\ \A k \in DOMAIN log : Ascending(log[k].mods)

=============================================================================
